---- MODULE Spec2Model ----
(***************************************************************************)
(* Trend statistics and zonal aggregation of erthromero/EEJWebApp:         *)
(*   TrendsCode/GreenLSTTrends3YrMedians.py   RasterLinModel (pixel path)  *)
(*   TrendsCode/CollectCensusTractStats2.py   AddRasterStatistics (v2)     *)
(*   TrendsCode/CollectCensusTractStats3.py   AddRasterStatistics (v3)     *)
(*                                                                         *)
(* Floating point values are modelled exactly: a float is a record that is *)
(* NaN, a signed infinity, a rational ("num") or a signed square root of a *)
(* rational ("root").  Division by zero follows numpy: x/0 is +-inf for    *)
(* x # 0 and NaN for x = 0, with a warning and no exception.  Rounding is  *)
(* not modelled.                                                           *)
(***************************************************************************)
EXTENDS Integers, Sequences, FiniteSets, TLC

----------------------------------------------------------------------------
(* Exact arithmetic for numpy float64 values                               *)

Abs(x) == IF x < 0 THEN -x ELSE x

Sign(x) == IF x > 0 THEN 1 ELSE IF x < 0 THEN -1 ELSE 0

RECURSIVE GCD(_, _)
GCD(a, b) == IF b = 0 THEN a ELSE GCD(b, a % b)

NaN == [k |-> "nan"]

Inf(s) == [k |-> "inf", s |-> s]

\* the rational n/d (d # 0) in lowest terms with a positive denominator
Q(n, d) ==
    LET g == GCD(Abs(n), Abs(d))
        s == IF d < 0 THEN -1 ELSE 1
    IN  [k |-> "num", n |-> (s * n) \div g, d |-> (s * d) \div g]

\* s * sqrt(n/d) with n/d >= 0; s = 0 exactly when the value is zero
Root(s, n, d) ==
    IF s = 0 \/ n = 0
    THEN [k |-> "root", s |-> 0, n |-> 0, d |-> 1]
    ELSE LET q == Q(n, d) IN [k |-> "root", s |-> s, n |-> q.n, d |-> q.d]

IsNaN(a) == a.k = "nan"

IsInf(a) == a.k = "inf"

\* sign of a non-NaN float
SignOf(a) ==
    IF a.k = "num" THEN Sign(a.n) ELSE a.s

\* a + b on rationals, infinities and NaN
FAdd(a, b) ==
    IF IsNaN(a) \/ IsNaN(b) THEN NaN
    ELSE IF IsInf(a) /\ IsInf(b) THEN (IF a.s = b.s THEN a ELSE NaN)
    ELSE IF IsInf(a) THEN a
    ELSE IF IsInf(b) THEN b
    ELSE Q(a.n * b.d + b.n * a.d, a.d * b.d)

FNeg(a) ==
    IF IsNaN(a) THEN NaN
    ELSE IF IsInf(a) THEN Inf(-a.s)
    ELSE Q(-a.n, a.d)

FSub(a, b) == FAdd(a, FNeg(b))

FMul(a, b) ==
    IF IsNaN(a) \/ IsNaN(b) THEN NaN
    ELSE IF IsInf(a) \/ IsInf(b)
         THEN (IF SignOf(a) * SignOf(b) = 0 THEN NaN ELSE Inf(SignOf(a) * SignOf(b)))
    ELSE Q(a.n * b.n, a.d * b.d)

\* numpy true division: x/0 = +-inf, 0/0 = nan, x/inf = 0, inf/inf = nan
FDiv(a, b) ==
    IF IsNaN(a) \/ IsNaN(b) THEN NaN
    ELSE IF IsInf(b) THEN (IF IsInf(a) THEN NaN ELSE Q(0, 1))
    ELSE IF b.n = 0 THEN (IF SignOf(a) = 0 THEN NaN ELSE Inf(SignOf(a)))
    ELSE IF IsInf(a) THEN Inf(a.s * Sign(b.n))
    ELSE Q(a.n * b.d, a.d * b.n)

\* a rational seen as a signed square root
ToRoot(a) ==
    IF a.k = "num" THEN Root(Sign(a.n), a.n * a.n, a.d * a.d) ELSE a

\* np.sqrt: NaN (with a warning) for a negative argument
Sqrt(a) ==
    IF IsNaN(a) THEN NaN
    ELSE IF IsInf(a) THEN (IF a.s > 0 THEN a ELSE NaN)
    ELSE IF a.n < 0 THEN NaN
    ELSE Root(Sign(a.n), a.n, a.d)

\* the square of a root value, a rational
Sq(a) ==
    IF IsNaN(a) THEN NaN
    ELSE IF IsInf(a) THEN Inf(1)
    ELSE Q(a.n, a.d)

RtMul(a, b) ==
    IF IsNaN(a) \/ IsNaN(b) THEN NaN
    ELSE IF IsInf(a) \/ IsInf(b)
         THEN (IF a.s * b.s = 0 THEN NaN ELSE Inf(a.s * b.s))
    ELSE Root(a.s * b.s, a.n * b.n, a.d * b.d)

RtDiv(a, b) ==
    IF IsNaN(a) \/ IsNaN(b) THEN NaN
    ELSE IF IsInf(b) THEN (IF IsInf(a) THEN NaN ELSE Root(0, 0, 1))
    ELSE IF b.s = 0 THEN (IF a.s = 0 THEN NaN ELSE Inf(a.s))
    ELSE IF IsInf(a) THEN Inf(a.s * b.s)
    ELSE Root(a.s * b.s, a.n * b.d, a.d * b.n)

\* |a| of a root value
RtAbs(a) ==
    IF IsNaN(a) THEN NaN
    ELSE IF IsInf(a) THEN Inf(1)
    ELSE Root(Abs(a.s), a.n, a.d)

\* scipy.stats.t.sf(tv, df) * 2.  sf is strictly decreasing from 1 at -inf
\* over 1/2 at 0 to 0 at +inf; it is NaN for a NaN argument and for df <= 0.
\* A value strictly between the end points is kept symbolically.
Sf2(tv, df) ==
    IF IsNaN(tv) \/ df <= 0 THEN NaN
    ELSE IF IsInf(tv) THEN (IF tv.s > 0 THEN Q(0, 1) ELSE Q(2, 1))
    ELSE IF tv.s = 0 THEN Q(1, 1)
    ELSE [k |-> "sf2", t |-> tv, df |-> df]

\* a p-value is at most one: 2*sf(tv) <= 1 exactly when tv >= 0
PAtMostOne(p) ==
    IF p.k = "sf2" THEN p.t.s > 0
    ELSE IF p.k = "num" THEN p.n <= p.d
    ELSE FALSE

----------------------------------------------------------------------------
(* NaN-aware reductions along the time axis                                *)

ValidIdx(seq) == {i \in DOMAIN seq : ~IsNaN(seq[i])}

RECURSIVE SumFrom(_, _)
SumFrom(seq, i) ==
    IF i > Len(seq) THEN Q(0, 1)
    ELSE FAdd(IF IsNaN(seq[i]) THEN Q(0, 1) ELSE seq[i], SumFrom(seq, i + 1))

\* np.nansum(axis=2): NaN counts as zero
nansum(seq) == SumFrom(seq, 1)

\* np.nanmean(axis=2): mean of the non-NaN entries, NaN when there is none
nanmean(seq) ==
    IF ValidIdx(seq) = {} THEN NaN
    ELSE FDiv(nansum(seq), Q(Cardinality(ValidIdx(seq)), 1))

\* the square of np.nanstd(axis=2)
nanvar(seq) ==
    LET m == nanmean(seq)
    IN  nanmean([i \in DOMAIN seq |->
                    FMul(FSub(seq[i], m), FSub(seq[i], m))])

nanstd(seq) == Sqrt(nanvar(seq))

----------------------------------------------------------------------------
(* The linear trend model, shared by RasterLinModel and the per-zone loop  *)
(* of AddRasterStatistics (CollectCensusTractStats3)                       *)

\* cov = np.nansum((time_data - xmean_arr)*(band_data - ymean_arr), axis=2)/(n)
Covariance(time, band, n, xmean, ymean) ==
    FDiv(nansum([i \in DOMAIN band |->
                    FMul(FSub(time[i], xmean), FSub(band[i], ymean))]),
         Q(n, 1))

\* a correlation that guards the division and reports 0 for a flat series
CorrelationZeroGuard(cov, xstd, ystd) ==
    IF ~IsNaN(RtMul(xstd, ystd)) /\ SignOf(RtMul(xstd, ystd)) = 0
    THEN Root(0, 0, 1)
    ELSE RtDiv(ToRoot(cov), RtMul(xstd, ystd))

\* cor = cov/(xstd*ystd)
Correlation(cov, xstd, ystd) == RtDiv(ToRoot(cov), RtMul(xstd, ystd))

\* slope = cov/(xstd**2)
Slope(cov, xstd) == FDiv(cov, Sq(xstd))

\* intercept = ymean - xmean*slope
Intercept(ymean, xmean, slope) == FSub(ymean, FMul(xmean, slope))

\* a t-statistic that reports a division by zero as undefined
TStatsGuarded(cor, n) ==
    IF IsInf(RtDiv(RtMul(cor, Sqrt(Q(n - 2, 1))), Sqrt(FSub(Q(1, 1), Sq(cor)))))
    THEN NaN
    ELSE RtDiv(RtMul(cor, Sqrt(Q(n - 2, 1))), Sqrt(FSub(Q(1, 1), Sq(cor))))

\* tstats = cor*np.sqrt(n-2)/np.sqrt(1-cor**2)
TStats(cor, n) ==
    RtDiv(RtMul(cor, Sqrt(Q(n - 2, 1))), Sqrt(FSub(Q(1, 1), Sq(cor))))

\* stderr = slope/tstats
StdErr(slope, tstats) == RtDiv(ToRoot(slope), tstats)

\* pval = t.sf(tstats, n-2)*2
PVal(tstats, n) == Sf2(tstats, n - 2)

\* the statistics of one entity; n is the depth of the stack (shape[2])
LinModel(time, band) ==
    LET n == Len(band)
        xmean == nanmean(time)
        ymean == nanmean(band)
        xstd == nanstd(time)
        ystd == nanstd(band)
        cov == Covariance(time, band, n, xmean, ymean)
        cor == Correlation(cov, xstd, ystd)
        slope == Slope(cov, xstd)
        intercept == Intercept(ymean, xmean, slope)
        tstats == TStats(cor, n)
        stderr == StdErr(slope, tstats)
        pval == PVal(tstats, n)
    IN  [n |-> n, xmean |-> xmean, ymean |-> ymean, xstd |-> xstd, ystd |-> ystd,
         cov |-> cov, cor |-> cor, slope |-> slope, intercept |-> intercept,
         tstats |-> tstats, stderr |-> stderr, pval |-> pval]

----------------------------------------------------------------------------
(* Inputs                                                                  *)

\* most bands of the raster given to RasterLinModel
MaxBands == 4

\* the no-data value the rasters declare (GetNoDataValue)
nodata == -9999

\* start_year of the analysis
start_year == 1990

\* RasterLinModel is called with an end year that gives one median year per band
rlm_end_year == start_year + 3 * MaxBands - 1

\* list(range(a, b, step)) for step > 0
RECURSIVE Range(_, _, _)
Range(a, b, step) == IF a >= b THEN <<>> ELSE <<a>> \o Range(a + step, b, step)

\* years = list(range(start_year+1,end_year+1,3)); since = [year - start_year]
rlm_since ==
    LET years == Range(start_year + 1, rlm_end_year + 1, 3)
    IN  [i \in DOMAIN years |-> years[i] - start_year]

\* the raster of RasterLinModel is one row of two pixels
Pixels == {1, 2}

\* cell values of the input raster: pixel 1 takes any of them, pixel 2 two
CellVals == {nodata, 1, 2, 3}

CellVals2 == {nodata, 2}

RasterInputs ==
    UNION {[1..b -> {a \in [Pixels -> CellVals] : a[2] \in CellVals2}] : b \in 1..MaxBands}

----------------------------------------------------------------------------
(* RasterLinModel: building the stacks                                     *)

\* arr == nodata on a float array: NaN compares unequal to everything
ArrEq(a, v) == ~IsNaN(a) /\ a = Q(v, 1)

\* one iteration of the band loop: (arr, time_arr) of band b (1-based).
\* arr[arr == nodata] = np.nan runs first, and the mask of the next line,
\* time_arr[arr == nodata] = np.nan, is computed from the updated arr.
ReadBand(raster, b) ==
    LET year == rlm_since[b]
        arr0 == [p \in Pixels |-> Q(raster[b][p], 1)]
        arr == [p \in Pixels |-> IF ArrEq(arr0[p], nodata) THEN NaN ELSE arr0[p]]
        time_arr == [p \in Pixels |-> IF ArrEq(arr[p], nodata) THEN NaN ELSE Q(year, 1)]
    IN  [arr |-> arr, time_arr |-> time_arr]

\* np.dstack: the series of one pixel along the band axis
PixelSeries(stack, p) == [b \in DOMAIN stack |-> stack[b][p]]

----------------------------------------------------------------------------
(* The zonal batch: inputs                                                 *)

\* number of yearly periods of the NDVI and LST time series; the code fixes
\* end_year = 2020, thirty periods, and the model keeps the stack shallow
ZonePeriods == 3

end_year == start_year + ZonePeriods

\* years = list(range(start_year,end_year)); since = [year - start_year]
since ==
    LET years == Range(start_year, end_year, 1)
    IN  [i \in DOMAIN years |-> years[i] - start_year]

\* band_idx, the year whose median is reported
band_idx == 1

\* the zone rasters are one row of three pixels
ZPixels == {1, 2, 3}

\* the key (filt_field_name) of each feature of the shapefile, in file order
feature_keys == <<"A", "B", "A">>

Features == DOMAIN feature_keys

\* tract_ids = gdf[filt_field_name].tolist()
tract_ids == feature_keys

\* A geometry is what the raster libraries see of it: the pixels whose centre
\* it contains, the pixels it touches, and whether geometry operations raise
\* on it (a null or invalid geometry).  A geometry that touches no pixel lies
\* outside the raster.
GeomA == [bad |-> FALSE, centre |-> {1}, touched |-> {1, 2}]

GeomB == [bad |-> FALSE, centre |-> {3}, touched |-> {2, 3}]

GeomOutside == [bad |-> FALSE, centre |-> {}, touched |-> {}]

GeomBad == [bad |-> TRUE, centre |-> {}, touched |-> {}]

Geoms == {GeomA, GeomB, GeomOutside, GeomBad}

\* NDVI time series rasters: pixel 1 is constant, pixel 3 misses its second
\* year, pixel 2 (the pixel zones share) takes any series
NdviVals == {nodata, 1, 3}

NdviInputs ==
    {[p \in ZPixels |->
        IF p = 2 THEN s
        ELSE [y \in 1..ZonePeriods |->
                IF p = 1 THEN 1 ELSE IF y = 2 THEN nodata ELSE y]] :
     s \in [1..ZonePeriods -> NdviVals]}

\* the LST time series raster: a decreasing, non-linear series at each pixel
lst_raster == [p \in ZPixels |-> [y \in 1..ZonePeriods |-> 20 + p - y * y]]

\* classified green space rasters (1 green, 2 water, 3 urban; 0 unclassified)
GscInputs == {r \in [ZPixels -> 0..3] : r[1] = 1 /\ r[3] = 3 /\ r[2] \in {1, 2}}

\* the statistics rasters read by CollectCensusTractStats2: the bands
\* RasterLinModel writes (stat_labs), one value per pixel
stat_labs_rlm == <<"covaraince", "correlation", "slope", "intercept", "tstat", "stderr", "pval">>

stats_raster(tif) ==
    [b \in DOMAIN stat_labs_rlm |->
        [p \in ZPixels |-> IF p = 3 /\ b = 1 THEN nodata
                           ELSE (IF tif = "NDVI" THEN b + p ELSE b - p)]]

tif_files == <<"NDVI", "LST">>

----------------------------------------------------------------------------
(* Zonal extraction                                                        *)

\* filt_gdf = gdf[gdf[filt_field_name] == tract_id]
ZoneFeatures(key) == {f \in Features : feature_keys[f] = key}

\* a geometry operation on the geometries of a zone raises
GeometryRaises(geom, key) == \E f \in ZoneFeatures(key) : geom[f].bad

TouchedPixels(geom, key) == UNION {geom[f].touched : f \in ZoneFeatures(key)}

CentrePixels(geom, key) == UNION {geom[f].centre : f \in ZoneFeatures(key)}

\* rasterio.mask.mask(src, shapes, crop=True): all_touched is left at its
\* default False, so a pixel is kept when its centre is inside a shape; the
\* call raises ValueError when the shapes do not overlap the raster
MaskRaises(geom, key) ==
    GeometryRaises(geom, key) \/ TouchedPixels(geom, key) = {}

MaskPixels(geom, key) == CentrePixels(geom, key)

\* zonal_stats(dissolved_gdf, arr, all_touched=True): every touched pixel
ZonalStatsPixels(geom, key) == TouchedPixels(geom, key)

\* the values of the pixels of S in ascending order (np.sort of a 1-d view)
RECURSIVE SortedVals(_, _)
SortedVals(S, val) ==
    IF S = {} THEN <<>>
    ELSE LET p == CHOOSE q \in S : \A r \in S : val[q] <= val[r]
         IN  <<val[p]>> \o SortedVals(S \ {p}, val)

\* the median of a non-empty ascending sequence of integers
MedianOf(sorted) ==
    LET m == Len(sorted)
    IN  IF m % 2 = 1 THEN Q(sorted[(m + 1) \div 2], 1)
        ELSE Q(sorted[m \div 2] + sorted[m \div 2 + 1], 2)

\* np.nanmedian(in_mem[year,:,:]) after in_mem[in_mem == nodata] = np.nan:
\* the median of the kept, non-nodata pixels; NaN when there is none
nanmedian(raster, S, y) ==
    LET kept == {p \in S : raster[p][y] # nodata}
        val == [p \in kept |-> raster[p][y]]
    IN  IF kept = {} THEN NaN ELSE MedianOf(SortedVals(kept, val))

\* the per-year medians of one zone (ndvi_band_data, lst_band_data)
ZoneBandData(raster, geom, key) ==
    [i \in DOMAIN since |-> nanmedian(raster, MaskPixels(geom, key), since[i] + 1)]

\* time_data = np.dstack(since): no period of it is ever marked invalid
zone_time_data == [i \in DOMAIN since |-> Q(since[i], 1)]

\* class_area = (in_mem_gsc == i).sum() * 5 * 5
ClassArea3(gsc_r, geom, key, i) ==
    Q(Cardinality({p \in MaskPixels(geom, key) : gsc_r[p] = i}) * 5 * 5, 1)

\* rasterstats masks the value -999 when zonal_stats is given an array and
\* no nodata argument
rasterstats_nodata == -999

Null == [k |-> "null"]

\* zonal_stats(..., stats=['median'], all_touched=True)[0]['median'] of a
\* 2-d array: None when no pixel is left
ZonalMedian(arr, S, nd) ==
    LET kept == {p \in S : arr[p] # nd}
        val == [p \in kept |-> arr[p]]
    IN  IF kept = {} THEN Null ELSE MedianOf(SortedVals(kept, val))

\* band band_idx of a time series raster (GetRasterBand(band_idx).ReadAsArray())
SnapArr(raster) == [p \in ZPixels |-> raster[p][band_idx]]

\* total_area_list[i-1]: the sum of greenSpace_arr == i over the zone (None -> 0)
ClassCount2(gsc_r, geom, key, i) ==
    Cardinality({p \in ZonalStatsPixels(geom, key) : gsc_r[p] = i})

----------------------------------------------------------------------------
(* Feature attribute writer                                                *)

filt_field_name(script) == IF script = "Stats2" THEN "GEOID" ELSE "zcta"

stat_labs == <<"cov", "corr", "int", "med", "pval", "slope", "stderr", "tstat">>

ts_rast_labs == <<"NDVI", "LST">>

class_labs == <<"green", "water", "urban">>

\* bandDesc[:5] of the bands of a statistics raster
bandDesc5 == <<"covar", "corre", "slope", "inter", "tstat", "stder", "pval">>

field_header(tif) == IF tif = "NDVI" THEN "ndvi_" ELSE "lst_"

\* the fields each script creates, in creation order
NewFields(script) ==
    IF script = "Stats2"
    THEN <<"medianNDVI", "medianLST", "greenArea", "waterArea", "urbanArea">>
         \o [i \in 1..(2 * Len(bandDesc5)) |->
                IF i <= Len(bandDesc5)
                THEN field_header("NDVI") \o bandDesc5[i]
                ELSE field_header("LST") \o bandDesc5[i - Len(bandDesc5)]]
    ELSE <<"greenArea", "waterArea", "urbanArea">>
         \o [i \in 1..(2 * Len(stat_labs)) |->
                IF i <= Len(stat_labs)
                THEN stat_labs[i] \o "NDVI"
                ELSE stat_labs[i - Len(stat_labs)] \o "LST"]

\* The first 8 characters of a field name, as the shapefile driver cuts it when
\* it has to make the name unique
Prefix8(name) ==
    CASE name = "greenArea" -> "greenAre" []
         name = "waterArea" -> "waterAre" []
         name = "urbanArea" -> "urbanAre" []
         name = "covNDVI" -> "covNDVI" []
         name = "corrNDVI" -> "corrNDVI" []
         name = "slopeNDVI" -> "slopeNDV" []
         name = "intNDVI" -> "intNDVI" []
         name = "tstatNDVI" -> "tstatNDV" []
         name = "stderrNDVI" -> "stderrND" []
         name = "pvalNDVI" -> "pvalNDVI" []
         name = "medNDVI" -> "medNDVI" []
         name = "covLST" -> "covLST" []
         name = "corrLST" -> "corrLST" []
         name = "slopeLST" -> "slopeLST" []
         name = "intLST" -> "intLST" []
         name = "tstatLST" -> "tstatLST" []
         name = "stderrLST" -> "stderrLS" []
         name = "pvalLST" -> "pvalLST" []
         name = "medLST" -> "medLST" []
         name = "medianNDVI" -> "medianND" []
         name = "medianLST" -> "medianLS" []
         name = "ndvi_covar" -> "ndvi_cov" []
         name = "ndvi_corre" -> "ndvi_cor" []
         name = "ndvi_slope" -> "ndvi_slo" []
         name = "ndvi_inter" -> "ndvi_int" []
         name = "ndvi_tstat" -> "ndvi_tst" []
         name = "ndvi_stder" -> "ndvi_std" []
         name = "ndvi_pval" -> "ndvi_pva" []
         name = "lst_covar" -> "lst_cova" []
         name = "lst_corre" -> "lst_corr" []
         name = "lst_slope" -> "lst_slop" []
         name = "lst_inter" -> "lst_inte" []
         name = "lst_tstat" -> "lst_tsta" []
         name = "lst_stder" -> "lst_stde" []
         name = "lst_pval" -> "lst_pval"

Digits == <<"1", "2", "3", "4", "5", "6", "7", "8", "9">>

\* The name the shapefile driver gives a new field whose name is taken: the
\* first 8 characters, "_" and the first digit that makes it unique
LaunderedName(name, taken) ==
    LET free == {d \in DOMAIN Digits : (Prefix8(name) \o "_" \o Digits[d]) \notin taken}
        first == CHOOSE d \in free : \A e \in free : d <= e
    IN  Prefix8(name) \o "_" \o Digits[first]

\* layer.CreateField(field_dfn): every feature gets the field, unset. The
\* script does not look whether the layer has a field of that name; when it
\* has, the driver adds the field under a laundered name and warns
CreateField(lyr, name) ==
    LET taken == UNION {DOMAIN lyr[f] : f \in DOMAIN lyr}
        new == IF name \in taken THEN LaunderedName(name, taken) ELSE name
    IN  [f \in DOMAIN lyr |-> lyr[f] @@ (new :> Null)]

RECURSIVE CreateFieldsFrom(_, _)
CreateFieldsFrom(lyr, names) ==
    IF names = <<>> THEN lyr
    ELSE CreateFieldsFrom(CreateField(lyr, Head(names)), Tail(names))

\* a writer that adds to the number a field already holds
SetFieldAccumulate(feat, name, value) ==
    [feat EXCEPT ![name] = IF @.k = "num" /\ value.k = "num" THEN FAdd(@, value) ELSE value]

\* feat.SetField(name, value); None unsets the field
SetField(feat, name, value) == [feat EXCEPT ![name] = value]

RECURSIVE SetFields(_, _)
SetFields(feat, pairs) ==
    IF pairs = <<>> THEN feat
    ELSE SetFields(SetField(feat, Head(pairs).name, Head(pairs).value), Tail(pairs))

\* layer.SetAttributeFilter(f"{filt_field_name} = '{tract_id}'")
Filtered(lyr, field, key) == {f \in DOMAIN lyr : lyr[f][field] = key}

\* for feat in layer: feat.SetField(...) ...; layer.SetFeature(feat)
WriteFeatures(lyr, field, key, pairs) ==
    [f \in DOMAIN lyr |->
        IF f \in Filtered(lyr, field, key) THEN SetFields(lyr[f], pairs) ELSE lyr[f]]

\* the eight fields of one time series source (CollectCensusTractStats3)
TrendFields(res, band, lab) ==
    << [name |-> stat_labs[1] \o lab, value |-> res.cov],
       [name |-> stat_labs[2] \o lab, value |-> res.cor],
       [name |-> stat_labs[3] \o lab, value |-> res.intercept],
       [name |-> stat_labs[4] \o lab, value |-> band[band_idx + 1]],
       [name |-> stat_labs[5] \o lab, value |-> res.pval],
       [name |-> stat_labs[6] \o lab, value |-> res.slope],
       [name |-> stat_labs[7] \o lab, value |-> res.stderr],
       [name |-> stat_labs[8] \o lab, value |-> res.tstats] >>

\* only the first of the three area loops finds features to write
AreaFields3GreenOnly(gsc_r, geom, key) ==
    << [name |-> class_labs[1] \o "Area", value |-> ClassArea3(gsc_r, geom, key, 1)] >>

AreaFields3(gsc_r, geom, key) ==
    [i \in DOMAIN class_labs |->
        [name |-> class_labs[i] \o "Area", value |-> ClassArea3(gsc_r, geom, key, i)]]

\* one iteration of the zone loop of CollectCensusTractStats3 whose masks
\* succeeded: the NDVI fields, the LST fields, then the three areas
ZoneFields3(ndvi, gsc_r, geom, key) ==
    LET nb == ZoneBandData(ndvi, geom, key)
        lb == ZoneBandData(lst_raster, geom, key)
    IN  TrendFields(LinModel(zone_time_data, nb), nb, ts_rast_labs[1])
        \o TrendFields(LinModel(zone_time_data, lb), lb, ts_rast_labs[2])
        \o AreaFields3(gsc_r, geom, key)

StatsFields2(geom, key, tif) ==
    [b \in DOMAIN bandDesc5 |->
        [name |-> field_header(tif) \o bandDesc5[b],
         value |-> ZonalMedian(stats_raster(tif)[b], ZonalStatsPixels(geom, key), nodata)]]

\* one iteration of the zone loop of CollectCensusTractStats2
ZoneFields2(ndvi, gsc_r, geom, key) ==
    << [name |-> "medianNDVI",
        value |-> ZonalMedian(SnapArr(ndvi), ZonalStatsPixels(geom, key), rasterstats_nodata)],
       [name |-> "medianLST",
        value |-> ZonalMedian(SnapArr(lst_raster), ZonalStatsPixels(geom, key), rasterstats_nodata)],
       [name |-> "greenArea", value |-> Q(ClassCount2(gsc_r, geom, key, 1) * 5 * 5, 1)],
       [name |-> "waterArea", value |-> Q(ClassCount2(gsc_r, geom, key, 2) * 5 * 5, 1)],
       [name |-> "urbanArea", value |-> Q(ClassCount2(gsc_r, geom, key, 3) * 5 * 5, 1)] >>
    \o StatsFields2(geom, key, tif_files[1])
    \o StatsFields2(geom, key, tif_files[2])

----------------------------------------------------------------------------
(* State                                                                   *)

VARIABLES
    prog,         \* the script that runs: RasterLinModel, Stats2 or Stats3
    pc,           \* its position
    ds,           \* RasterLinModel: the input raster, band -> pixel -> value
    band_data,    \* RasterLinModel: the stack of observations
    time_data,    \* RasterLinModel: the stack of time offsets
    stat_list,    \* RasterLinModel: the statistics of every pixel
    geom,         \* zonal batch: the geometry of every feature
    ndvi_raster,  \* zonal batch: the NDVI time series raster
    gsc_raster,   \* zonal batch: the classified green space raster
    layer,        \* zonal batch: the fields of every feature of the layer
    zi,           \* zonal batch: position of the zone loop in tract_ids
    gsc_gt,       \* zonal batch: pixel width and height of the classified raster
    missing,      \* the input paths that are not files
    opens         \* how many times each input path has been opened

rlmVars == <<ds, band_data, time_data, stat_list>>

zoneInputs == <<geom, ndvi_raster, gsc_raster, gsc_gt, missing>>

vars == <<prog, pc, ds, band_data, time_data, stat_list, geom, ndvi_raster,
          gsc_raster, layer, zi, gsc_gt, missing, opens>>

\* The paths a script is called with
Sources(script) ==
    IF script = "RasterLinModel" THEN {"raster_fn", "clipping_cutline_fn"}
    ELSE IF script = "Stats3"
    THEN {"shp_fn", "ndvi_time_series_rast", "lst_time_series_rast",
          "GreenSpaceClassRaster"}
    ELSE {"shp_fn", "ndvi_stats_rast", "lst_stats_rast", "ndvi_time_series_rast",
          "lst_time_series_rast", "GreenSpaceClassRaster"}

\* The paths a script asserts to be files before it does anything else
Asserted(script) ==
    IF script = "RasterLinModel" THEN {"raster_fn"}
    ELSE IF script = "Stats3"
    THEN {"shp_fn", "ndvi_time_series_rast", "lst_time_series_rast"}
    ELSE {"shp_fn", "ndvi_stats_rast", "lst_stats_rast"}

\* The rasters AddRasterStatistics opens with gdal.Open right after the
\* assertions
GdalOpened == {"ndvi_time_series_rast", "lst_time_series_rast", "GreenSpaceClassRaster"}

\* The opens of AddRasterStatistics before the fields are created, on inputs
\* that are all files. CollectCensusTractStats3 opens every raster with
\* gdal.Open and with rio.open; both scripts open the shapefile with
\* gpd.read_file and with ogr.Open
OpensAtStart(script) ==
    [s \in Sources(script) |->
        IF s = "shp_fn" THEN 2
        ELSE IF s \in GdalOpened THEN (IF script = "Stats3" THEN 2 ELSE 1)
        ELSE 0]

\* gdal.Open(tif_file) of both statistics rasters
OpenStatsRasters(o) ==
    [s \in DOMAIN o |-> IF s \in {"ndvi_stats_rast", "lst_stats_rast"}
                        THEN o[s] + 1 ELSE o[s]]

\* Pixel width and height of the classified raster
PixelSizes == {[w |-> 5, h |-> 5], [w |-> 10, h |-> 10]}

\* Rasters of 1..MaxBands bands without a nodata cell
FlatRasters == {[b \in 1..n |-> [p \in Pixels |-> 2]] : n \in 1..MaxBands}

\* The NDVI raster whose pixel 2 is 1 in every period
NdviFlat == CHOOSE r \in NdviInputs : \A y \in 1..ZonePeriods : r[2][y] = 1

\* The layer of a shapefile that no run has touched: the key field only
FreshLayer(script) ==
    [f \in Features |-> (filt_field_name(script) :> feature_keys[f])]

\* The zone loop of AddRasterStatistics from zone i on
RECURSIVE RunZones(_, _, _, _, _, _)
RunZones(script, lyr, g, ndvi_r, gsc_r, i) ==
    IF i > Len(tract_ids) THEN lyr
    ELSE IF script = "Stats3"
    THEN IF MaskRaises(g, tract_ids[i])
         THEN RunZones(script, lyr, g, ndvi_r, gsc_r, i + 1)
         ELSE RunZones(script,
                       WriteFeatures(lyr, filt_field_name(script), tract_ids[i],
                                     ZoneFields3(ndvi_r, gsc_r, g, tract_ids[i])),
                       g, ndvi_r, gsc_r, i + 1)
    ELSE IF GeometryRaises(g, tract_ids[i])
         THEN lyr
         ELSE RunZones(script,
                       WriteFeatures(lyr, filt_field_name(script), tract_ids[i],
                                     ZoneFields2(ndvi_r, gsc_r, g, tract_ids[i])),
                       g, ndvi_r, gsc_r, i + 1)

\* The layer an earlier run of the script on the same inputs has left
PriorRunLayer(script, g, ndvi_r, gsc_r) ==
    RunZones(script, CreateFieldsFrom(FreshLayer(script), NewFields(script)),
             g, ndvi_r, gsc_r, 1)

Init ==
    /\ pc = "start"
    /\ band_data = <<>>
    /\ time_data = <<>>
    /\ stat_list = <<>>
    /\ zi = 1
    /\ \/ /\ prog = "RasterLinModel"
          /\ \/ /\ missing = {}
                /\ ds \in RasterInputs
             \/ /\ missing = {"clipping_cutline_fn"}
                /\ ds \in FlatRasters
             \/ /\ missing \in {{"raster_fn"}, {"raster_fn", "clipping_cutline_fn"}}
                /\ ds = <<>>
          /\ geom = <<>>
          /\ ndvi_raster = <<>>
          /\ gsc_raster = <<>>
          /\ gsc_gt = <<>>
          /\ layer = <<>>
       \/ /\ prog \in {"Stats2", "Stats3"}
          /\ ds = <<>>
          /\ geom \in [Features -> Geoms]
          /\ gsc_raster \in GscInputs
          /\ \/ /\ ndvi_raster \in NdviInputs
                /\ gsc_gt = [w |-> 5, h |-> 5]
                /\ missing = {}
                /\ layer = FreshLayer(prog)
             \/ /\ ndvi_raster = NdviFlat
                /\ gsc_gt \in PixelSizes
                /\ missing = {}
                /\ layer \in {FreshLayer(prog),
                              PriorRunLayer(prog, geom, ndvi_raster, gsc_raster)}
             \/ /\ ndvi_raster = NdviFlat
                /\ gsc_gt = [w |-> 5, h |-> 5]
                /\ missing \in {{s} : s \in Sources(prog)}
                /\ layer = FreshLayer(prog)
    /\ opens = [s \in Sources(prog) |-> 0]

----------------------------------------------------------------------------
(* RasterLinModel                                                          *)

\* assert isfile(raster_fn); gdal.Open
RLMOpen ==
    /\ prog = "RasterLinModel" /\ pc = "start"
    /\ "raster_fn" \notin missing
    /\ opens' = [opens EXCEPT !["raster_fn"] = @ + 1]
    /\ pc' = "read"
    /\ UNCHANGED <<prog, rlmVars, zoneInputs, layer, zi>>

\* assert isfile(raster_fn) fails
RLMOpenFails ==
    /\ prog = "RasterLinModel" /\ pc = "start"
    /\ "raster_fn" \in missing
    /\ pc' = "raised"
    /\ UNCHANGED <<prog, rlmVars, zoneInputs, layer, zi, opens>>

\* the band loop and the two np.dstack calls
RLMReadBands ==
    /\ prog = "RasterLinModel" /\ pc = "read"
    /\ band_data' = [b \in DOMAIN ds |-> ReadBand(ds, b).arr]
    /\ time_data' = [b \in DOMAIN ds |-> ReadBand(ds, b).time_arr]
    /\ pc' = "compute"
    /\ UNCHANGED <<prog, ds, stat_list, zoneInputs, layer, zi, opens>>

\* the vectorized statistics, one result per pixel
RLMCompute ==
    /\ prog = "RasterLinModel" /\ pc = "compute"
    /\ stat_list' = [p \in Pixels |->
                        LinModel(PixelSeries(time_data, p), PixelSeries(band_data, p))]
    /\ pc' = "write"
    /\ UNCHANGED <<prog, ds, band_data, time_data, zoneInputs, layer, zi, opens>>

\* assert isfile(clipping_cutline_fn); the statistics are written band by
\* band and warped to the cutline, which WarpToMatchResolution opens
RLMWrite ==
    /\ prog = "RasterLinModel" /\ pc = "write"
    /\ "clipping_cutline_fn" \notin missing
    /\ opens' = [opens EXCEPT !["clipping_cutline_fn"] = @ + 1]
    /\ pc' = "done"
    /\ UNCHANGED <<prog, rlmVars, zoneInputs, layer, zi>>

\* assert isfile(clipping_cutline_fn) fails, after the statistics
RLMCutlineFails ==
    /\ prog = "RasterLinModel" /\ pc = "write"
    /\ "clipping_cutline_fn" \in missing
    /\ pc' = "raised"
    /\ UNCHANGED <<prog, rlmVars, zoneInputs, layer, zi, opens>>

----------------------------------------------------------------------------
(* AddRasterStatistics                                                     *)

Zonal == prog \in {"Stats2", "Stats3"}

\* the path assertions pass, the raster and vector sources are opened
StartBatch ==
    /\ Zonal /\ pc = "start"
    /\ missing = {}
    /\ opens' = OpensAtStart(prog)
    /\ pc' = "fields"
    /\ UNCHANGED <<prog, rlmVars, zoneInputs, layer, zi>>

\* a path is not a file: an assertion fails, or gdal.Open of a path that is
\* not asserted returns None and the first use of it raises AttributeError
StartFails ==
    /\ Zonal /\ pc = "start"
    /\ missing # {}
    /\ opens' = [s \in Sources(prog) |->
                    IF /\ missing \cap Asserted(prog) = {}
                       /\ s \in GdalOpened \ missing
                    THEN 1 ELSE 0]
    /\ pc' = "raised"
    /\ UNCHANGED <<prog, rlmVars, zoneInputs, layer, zi>>

\* the layer.CreateField calls; CollectCensusTractStats2 opens each
\* statistics raster for its band descriptions
CreateFields ==
    /\ Zonal /\ pc = "fields"
    /\ layer' = CreateFieldsFrom(layer, NewFields(prog))
    /\ opens' = IF prog = "Stats2" THEN OpenStatsRasters(opens) ELSE opens
    /\ pc' = "loop"
    /\ UNCHANGED <<prog, rlmVars, zoneInputs, zi>>

InLoop == pc = "loop" /\ zi <= Len(tract_ids)

\* CollectCensusTractStats3: a mask raised, except ... continue
ZoneSkip3 ==
    /\ prog = "Stats3" /\ InLoop
    /\ MaskRaises(geom, tract_ids[zi])
    /\ zi' = zi + 1
    /\ UNCHANGED <<prog, pc, rlmVars, zoneInputs, layer, opens>>

\* CollectCensusTractStats3: the masks succeeded, the zone is written
ZoneWrite3 ==
    /\ prog = "Stats3" /\ InLoop
    /\ ~MaskRaises(geom, tract_ids[zi])
    /\ layer' = WriteFeatures(layer, filt_field_name(prog), tract_ids[zi],
                              ZoneFields3(ndvi_raster, gsc_raster, geom, tract_ids[zi]))
    /\ zi' = zi + 1
    /\ UNCHANGED <<prog, pc, rlmVars, zoneInputs, opens>>

\* CollectCensusTractStats2: dissolve or zonal_stats raises; nothing catches
\* the exception inside AddRasterStatistics, it ends the call
ZoneRaise2 ==
    /\ prog = "Stats2" /\ InLoop
    /\ GeometryRaises(geom, tract_ids[zi])
    /\ pc' = "raised"
    /\ UNCHANGED <<prog, rlmVars, zoneInputs, layer, zi, opens>>

\* CollectCensusTractStats2: the zone is written; both statistics rasters are
\* opened again for this zone
ZoneWrite2 ==
    /\ prog = "Stats2" /\ InLoop
    /\ ~GeometryRaises(geom, tract_ids[zi])
    /\ layer' = WriteFeatures(layer, filt_field_name(prog), tract_ids[zi],
                              ZoneFields2(ndvi_raster, gsc_raster, geom, tract_ids[zi]))
    /\ opens' = OpenStatsRasters(opens)
    /\ zi' = zi + 1
    /\ UNCHANGED <<prog, pc, rlmVars, zoneInputs>>

\* the zone loop is exhausted
FinishBatch ==
    /\ Zonal /\ pc = "loop" /\ zi > Len(tract_ids)
    /\ pc' = "done"
    /\ UNCHANGED <<prog, rlmVars, zoneInputs, layer, zi, opens>>

Next ==
    \/ RLMOpen
    \/ RLMOpenFails
    \/ RLMReadBands
    \/ RLMCompute
    \/ RLMWrite
    \/ RLMCutlineFails
    \/ StartBatch
    \/ StartFails
    \/ CreateFields
    \/ ZoneSkip3
    \/ ZoneWrite3
    \/ ZoneRaise2
    \/ ZoneWrite2
    \/ FinishBatch

Spec == Init /\ [][Next]_vars

----------------------------------------------------------------------------
(* Entities: what the program reports for each pixel and each zone         *)

Computed == prog = "RasterLinModel" /\ pc \in {"write", "done"}

\* the observations of pixel p as given, no-data resolved to the invalid marker
PixelObs(p) == [b \in DOMAIN ds |-> IF ds[b][p] = nodata THEN NaN ELSE Q(ds[b][p], 1)]

PixelEntity(p) ==
    [t |-> [b \in DOMAIN ds |-> rlm_since[b]],
     v |-> PixelObs(p),
     n |-> stat_list[p].n,
     res |-> [cov |-> stat_list[p].cov, cor |-> stat_list[p].cor,
              slope |-> stat_list[p].slope, intercept |-> stat_list[p].intercept,
              tstats |-> stat_list[p].tstats, stderr |-> stat_list[p].stderr,
              pval |-> stat_list[p].pval]]

\* the zone of feature f has been written by the loop of CollectCensusTractStats3
Written3(f) ==
    /\ prog = "Stats3" /\ pc \in {"loop", "done"}
    /\ \E j \in 1..(zi - 1) : tract_ids[j] = feature_keys[f]
    /\ ~MaskRaises(geom, feature_keys[f])

ZoneRaster(lab) == IF lab = "NDVI" THEN ndvi_raster ELSE lst_raster

\* the trend of feature f for one source, read back from the layer
ZoneEntity(f, lab) ==
    [t |-> since,
     v |-> ZoneBandData(ZoneRaster(lab), geom, feature_keys[f]),
     n |-> Len(since),
     res |-> [cov |-> layer[f]["cov" \o lab], cor |-> layer[f]["corr" \o lab],
              slope |-> layer[f]["slope" \o lab], intercept |-> layer[f]["int" \o lab],
              tstats |-> layer[f]["tstat" \o lab], stderr |-> layer[f]["stderr" \o lab],
              pval |-> layer[f]["pval" \o lab]]]

Entities ==
    IF Computed THEN {PixelEntity(p) : p \in Pixels}
    ELSE IF prog = "Stats3"
    THEN {ZoneEntity(f, lab) : f \in {g \in Features : Written3(g)}, lab \in {"NDVI", "LST"}}
    ELSE {}

NValid(e) == Cardinality(ValidIdx(e.v))

\* the value of e is the same constant c in all of its valid periods
ConstantAt(e, c) == ValidIdx(e.v) # {} /\ \A i \in ValidIdx(e.v) : e.v[i] = c

IsConstant(e) == \E i \in ValidIdx(e.v) : ConstantAt(e, e.v[i])

Zero == Q(0, 1)

AllUndefined(r) ==
    /\ IsNaN(r.cov) /\ IsNaN(r.cor) /\ IsNaN(r.slope) /\ IsNaN(r.intercept)
    /\ IsNaN(r.stderr) /\ IsNaN(r.tstats) /\ IsNaN(r.pval)

\* the statistics of a constant entity, as the specification words them
ConstantResult(e) ==
    /\ IsNaN(e.res.cor) /\ IsNaN(e.res.tstats) /\ IsNaN(e.res.stderr)
    /\ e.res.slope = Zero
    /\ \A i \in ValidIdx(e.v) : e.res.intercept = e.v[i]

----------------------------------------------------------------------------
(* C1 *)

----------------------------------------------------------------------------
(* C2 *)

\* C2: every entity with fewer than three valid periods reports every field
\* of its trend result as undefined.
C2_FewPeriodsUndefined == \A e \in Entities : NValid(e) < 3 => AllUndefined(e.res)

----------------------------------------------------------------------------
(* C3 *)

StacksBuilt == prog = "RasterLinModel" /\ pc \in {"compute", "write", "done"}

\* C3: in the stacks RasterLinModel builds, the time offset of a band and
\* pixel is invalid exactly when the observation of that band and pixel was
\* the no-data value.
C3_MasksCoupled ==
    StacksBuilt =>
        \A b \in DOMAIN ds : \A p \in Pixels :
            IsNaN(time_data[b][p]) <=> (ds[b][p] = nodata)

----------------------------------------------------------------------------
(* C4 *)

RECURSIVE Compact(_, _, _)
\* the entries of seq at the indices of S, in order, from index i on
Compact(seq, S, i) ==
    IF i > Len(seq) THEN <<>>
    ELSE (IF i \in S THEN <<seq[i]>> ELSE <<>>) \o Compact(seq, S, i + 1)

\* the statistics of an entity observed only at the valid periods of e
OverValid(e) ==
    LET S == ValidIdx(e.v)
    IN  LinModel(Compact([i \in DOMAIN e.t |-> Q(e.t[i], 1)], S, 1), Compact(e.v, S, 1))

\* C4: an entity with at least three valid periods has n equal to its count
\* of valid periods, and the covariance, slope and intercept of an entity
\* observed only at those periods.
C4_OverValidPeriods ==
    \A e \in Entities :
        NValid(e) >= 3 =>
            /\ e.n = NValid(e)
            /\ e.res.cov = OverValid(e).cov
            /\ e.res.slope = OverValid(e).slope
            /\ e.res.intercept = OverValid(e).intercept

----------------------------------------------------------------------------
(* C5 *)

UnitCorrelation(e) == e.res.cor.k = "root" /\ e.res.cor.s # 0 /\ e.res.cor.n = e.res.cor.d

----------------------------------------------------------------------------
(* C6 *)

\* e.v = a + b * e.t at every period, with b # 0 and nothing missing
IsLinear(e) ==
    /\ Len(e.v) >= 3
    /\ NValid(e) = Len(e.v)
    /\ e.v[2] # e.v[1]
    /\ \A i \in 1..(Len(e.v) - 1) :
          FMul(FSub(e.v[i + 1], e.v[i]), Q(e.t[2] - e.t[1], 1))
            = FMul(FSub(e.v[2], e.v[1]), Q(e.t[i + 1] - e.t[i], 1))

LineB(e) == FDiv(FSub(e.v[2], e.v[1]), Q(e.t[2] - e.t[1], 1))

LineA(e) == FSub(e.v[1], FMul(LineB(e), Q(e.t[1], 1)))

\* C6: a noise-free linear entity v = a + b*t of three or more periods reports
\* slope b, intercept a, a correlation of magnitude 1 and a p-value of 0,
\* for b of either sign.
C6_RoundTrip ==
    \A e \in Entities :
        IsLinear(e) =>
            /\ e.res.slope = LineB(e)
            /\ e.res.intercept = LineA(e)
            /\ UnitCorrelation(e)
            /\ e.res.pval = Zero

----------------------------------------------------------------------------
(* C7 *)

\* C7: the p-value is 2*sf(|t_statistic|, n-2), so that every defined
\* p-value is at most 1.
C7_TwoTailed ==
    \A e \in Entities :
        /\ e.res.pval = Sf2(RtAbs(e.res.tstats), e.n - 2)
        /\ ~IsNaN(e.res.pval) => PAtMostOne(e.res.pval)

----------------------------------------------------------------------------
(* C8 *)

\* the extraction of the zone of feature f raises
ExtractionRaises(f) ==
    IF prog = "Stats3" THEN MaskRaises(geom, feature_keys[f])
    ELSE GeometryRaises(geom, feature_keys[f])

\* the statistics and areas of feature f have been written
HasStatistics(f) ==
    /\ "greenArea" \in DOMAIN layer[f]
    /\ layer[f]["greenArea"] # Null

\* C8: a zone whose extraction raises never ends the batch, and at the end of
\* the batch every zone whose own extraction succeeds has been written.
C8_ZoneFailureContained ==
    Zonal =>
        /\ pc # "raised"
        /\ pc = "done" => \A f \in Features : ~ExtractionRaises(f) => HasStatistics(f)

----------------------------------------------------------------------------
(* C9 *)

\* C9: an iteration of the zone loop leaves the set of features unchanged and
\* the features of other keys untouched, and an iteration for a key that an
\* earlier iteration has written leaves the whole layer as it was.
C9_WriterIdempotent ==
    [][(Zonal /\ InLoop) =>
          /\ DOMAIN layer' = DOMAIN layer
          /\ \A f \in Features :
                feature_keys[f] # tract_ids[zi] => layer'[f] = layer[f]
          /\ (\E j \in 1..(zi - 1) : tract_ids[j] = tract_ids[zi]) => layer' = layer
      ]_vars

\* key "A" has been written by two iterations, with an area that is not zero
C9_Witness ==
    /\ Zonal /\ pc \in {"loop", "done"} /\ zi > 3
    /\ tract_ids[1] = tract_ids[3]
    /\ HasStatistics(1) /\ layer[1]["greenArea"] # Zero
    /\ HasStatistics(3)

----------------------------------------------------------------------------
(* C10 *)

Written2(f) ==
    /\ prog = "Stats2" /\ pc \in {"loop", "done", "raised"}
    /\ \E j \in 1..(zi - 1) : tract_ids[j] = feature_keys[f]

\* the number of pixels of class i the geometry of the zone touches
TouchedCount(key, i) == Cardinality({p \in TouchedPixels(geom, key) : gsc_raster[p] = i})

\* C10: the reported median and the green area of every written zone are
\* taken over every pixel the zone's geometry touches, in both scripts.
C10_AnyTouched ==
    \A f \in Features :
        /\ Written3(f) =>
              /\ layer[f]["medNDVI"]
                    = nanmedian(ndvi_raster, TouchedPixels(geom, feature_keys[f]), band_idx + 1)
              /\ layer[f]["greenArea"] = Q(TouchedCount(feature_keys[f], 1) * 5 * 5, 1)
        /\ Written2(f) =>
              /\ layer[f]["medianNDVI"]
                    = ZonalMedian(SnapArr(ndvi_raster), TouchedPixels(geom, feature_keys[f]),
                                  rasterstats_nodata)
              /\ layer[f]["greenArea"] = Q(TouchedCount(feature_keys[f], 1) * 5 * 5, 1)

----------------------------------------------------------------------------
(* C11 *)

\* the pixels of class i inside the mask of the zone of feature f
ClassPixels(f, i) ==
    LET key == feature_keys[f]
        inside == IF prog = "Stats3" THEN MaskPixels(geom, key)
                  ELSE ZonalStatsPixels(geom, key)
    IN  {p \in inside : gsc_raster[p] = i}

\* C11: for every written zone and every class (1 green, 2 water, 3 urban),
\* the area field is the number of pixels of that class inside the zone's mask
\* times the pixel width times the pixel height of the classification raster.
C11_ClassArea ==
    \A f \in Features :
        (Written3(f) \/ Written2(f)) =>
            \A i \in DOMAIN class_labs :
                layer[f][class_labs[i] \o "Area"]
                    = Q(Cardinality(ClassPixels(f, i)) * gsc_gt.w * gsc_gt.h, 1)

----------------------------------------------------------------------------
(* C12 *)

\* the fields a script creates for its output
OutputFields(script) == {NewFields(script)[i] : i \in DOMAIN NewFields(script)}

\* C12: once the fields are set up, the layer has the key field and the output
\* fields of the script and no other field, whether or not an earlier run has
\* created the output fields already.
C12_FieldSetupIdempotent ==
    (Zonal /\ pc \in {"loop", "done"}) =>
        \A f \in Features :
            DOMAIN layer[f] = {filt_field_name(prog)} \cup OutputFields(prog)

----------------------------------------------------------------------------
(* C13 *)

\* C13: when an input path is not a file the run never completes, no statistic
\* is computed, and the layer keeps the fields and values it had.
C13_MissingInputFailsFirst ==
    missing # {} =>
        /\ pc # "done"
        /\ stat_list = <<>>
        /\ Zonal => layer = FreshLayer(prog)

----------------------------------------------------------------------------
(* C14 *)

\* C14: in a zonal batch every raster source and the vector source has been
\* opened exactly once when the zone loop starts, and the count stays 1 to the
\* end of the batch.
C14_OpenedOnce ==
    (Zonal /\ pc \in {"loop", "done"}) =>
        \A s \in Sources(prog) : opens[s] = 1

----------------------------------------------------------------------------
(* C15 *)

\* the 19 fields CollectCensusTractStats3 writes for a zone
OutputFields3 ==
    {stat_labs[a] \o ts_rast_labs[b] : a \in DOMAIN stat_labs, b \in DOMAIN ts_rast_labs}
        \cup {class_labs[i] \o "Area" : i \in DOMAIN class_labs}

\* C15: an iteration of the zone loop of CollectCensusTractStats3 whose mask
\* step raises leaves every feature as it was; an iteration whose masks
\* succeed leaves all 19 output fields of every feature of that key written,
\* the three areas with the areas of that zone.
C15_ZoneAllOrNothing ==
    [][(prog = "Stats3" /\ InLoop) =>
          IF MaskRaises(geom, tract_ids[zi])
          THEN layer' = layer
          ELSE \A f \in Features :
                  feature_keys[f] = tract_ids[zi] =>
                      /\ \A name \in OutputFields3 : layer'[f][name] # Null
                      /\ \A i \in DOMAIN class_labs :
                            layer'[f][class_labs[i] \o "Area"]
                                = ClassArea3(gsc_raster, geom, tract_ids[zi], i)
      ]_vars

\* the batch has ended on a layer that had no output field: zone "B" was
\* skipped and its feature has no value, zone "A" was written and both of its
\* features have all 19 values
C15_Witness ==
    /\ prog = "Stats3" /\ pc = "done"
    /\ Cardinality(OutputFields3) = 19
    /\ MaskRaises(geom, "B") /\ \A name \in OutputFields3 : layer[2][name] = Null
    /\ ~MaskRaises(geom, "A")
    /\ \A name \in OutputFields3 : layer[1][name] # Null /\ layer[3][name] # Null

====
